---- MODULE Spec2Model ----
(***************************************************************************)
(* Reputation cache / scoring pipeline of TrustUp-API                      *)
(* (src/src/modules/reputation/reputation.module.ts).                      *)
(*                                                                         *)
(* ReputationService.getReputationData and invalidateReputation are async  *)
(* methods: every `await` is a point where other requests interleave, so   *)
(* each awaited collaborator call is one atomic step of a call.  Time is   *)
(* counted in whole minutes.                                               *)
(*                                                                         *)
(* The functions that touch no shared state are applied on their own to    *)
(* inputs drawn from bounded sets, each under a specification of its own:  *)
(* mapToReputation (SpecClassify), fetchScoreFromBlockchain (SpecHash),    *)
(* LoansService.calculateLoanQuote (SpecQuote) and generateSchedule        *)
(* (SpecSchedule, SpecDueDates) of src/src/modules/loans/loans.service.ts. *)
(* AuthService.verifySignature of src/src/modules/auth/auth.service.ts is  *)
(* modelled under SpecAuth.  The service is also run on a longer clock     *)
(* (SpecStaleness), with a history of its invalidations                    *)
(* (SpecInvalidation), without invalidations (SpecReads) and for two       *)
(* wallets (SpecIsolation).                                                *)
(***************************************************************************)
EXTENDS Integers, Sequences, FiniteSets, TLC

VARIABLES
    now,      \* wall clock (new Date()), in minutes
    hot,      \* Redis hot cache: wallet -> Nil or [value, expiresAt]
    warm,     \* Supabase reputation_cache: wallet -> Nil or [score, tier, last_synced_at]
    calls,    \* per request slot: the call in progress and what it has done
    users,    \* wallets that own a row of the users table
    started,  \* number of calls started so far
    faulted,  \* number of collaborator failures so far
    clean,    \* wallet -> the last operation on it was an invalidation that cleared both caches
    fnIn,     \* a function applied on its own: its input
    fnOut     \* a function applied on its own: its progress and output;
              \* under SpecStaleness and SpecInvalidation: the history kept

vars == <<now, hot, warm, users, calls, started, faulted, clean, fnIn, fnOut>>

----------------------------------------------------------------------------
(* Bounds of the model *)

MaxCalls == 3
MaxFaults == 2

Procs == {1, 2}

(* The instants, in minutes, at which steps are taken *)
Instants == {0, 59, 60, 61}

(* Wallet strings, as their sequences of UTF-16 code units: "GQ" *)
WalletA == <<71, 81>>
Wallets == {WalletA}

(* A second wallet, "G", and the wallets the two stores have keys for *)
WalletB == <<71>>
Stored == {WalletA, WalletB}

Nil == [nil |-> TRUE]

----------------------------------------------------------------------------
(* Program constants *)

REPUTATION_CACHE_TTL == 300
StaleMinutes == 60
SecondsPerMinute == 60
ScoreModulus == 101

(* this.ttl, in the model's time unit *)
TtlMinutes == REPUTATION_CACHE_TTL \div SecondsPerMinute

----------------------------------------------------------------------------
(* fetchScoreFromBlockchain: the placeholder oracle *)

Half == 65536

(* hash = (hash << 5) - hash + c; hash |= 0  -- i.e. 31*hash + c wrapped to a
   signed 32-bit integer, computed on 16-bit halves so no intermediate value
   leaves the 32-bit range. *)
HashStep(hash, c) ==
    LET lo    == hash % Half
        hi    == ((hash - lo) \div Half) % Half
        lowP  == lo * 31 + c
        nLo   == lowP % Half
        nHi   == (hi * 31 + (lowP \div Half)) % Half
    IN  IF nHi >= Half \div 2 THEN (nHi - Half) * Half + nLo
                              ELSE nHi * Half + nLo

RECURSIVE HashFrom(_, _, _)
HashFrom(hash, wallet, i) ==
    IF i > Len(wallet) THEN hash
    ELSE HashFrom(HashStep(hash, wallet[i]), wallet, i + 1)

(* mutant: the remainder keeps the sign of the hash (no Math.abs) *)
RemSigned(hash, n) ==
    LET r == hash % n
    IN  IF hash >= 0 \/ r = 0 THEN r ELSE r - n

(* Math.abs(hash % 101), with JavaScript's truncating % *)
AbsRem(hash, n) ==
    LET r == hash % n
    IN  IF hash >= 0 \/ r = 0 THEN r ELSE n - r

FetchScore(wallet) == AbsRem(HashFrom(0, wallet, 1), ScoreModulus)

----------------------------------------------------------------------------
(* mapToReputation: the tier classifier *)

(* mutant: the gold threshold excludes 90 *)
MapToReputationStrict(wallet, score, lastUpdated) ==
    LET row == IF score > 90 THEN <<"gold", 5, 5000>>
               ELSE IF score >= 75 THEN <<"silver", 8, 3000>>
               ELSE IF score >= 60 THEN <<"bronze", 12, 1500>>
               ELSE <<"poor", 18, 500>>
    IN  [wallet |-> wallet, score |-> score, tier |-> row[1],
         interestRate |-> row[2], maxCredit |-> row[3],
         lastUpdated |-> lastUpdated]

(* mutant: the bronze row carries another rate *)
MapToReputationBronzeRate(wallet, score, lastUpdated) ==
    LET row == IF score >= 90 THEN <<"gold", 5, 5000>>
               ELSE IF score >= 75 THEN <<"silver", 8, 3000>>
               ELSE IF score >= 60 THEN <<"bronze", 9, 1500>>
               ELSE <<"poor", 18, 500>>
    IN  [wallet |-> wallet, score |-> score, tier |-> row[1],
         interestRate |-> row[2], maxCredit |-> row[3],
         lastUpdated |-> lastUpdated]

MapToReputation(wallet, score, lastUpdated) ==
    LET row == IF score >= 90 THEN <<"gold", 5, 5000>>
               ELSE IF score >= 75 THEN <<"silver", 8, 3000>>
               ELSE IF score >= 60 THEN <<"bronze", 12, 1500>>
               ELSE <<"poor", 18, 500>>
    IN  [wallet |-> wallet, score |-> score, tier |-> row[1],
         interestRate |-> row[2], maxCredit |-> row[3],
         lastUpdated |-> lastUpdated]

----------------------------------------------------------------------------
(* Collaborators: the hot cache (cache-manager over Redis) and the warm store *)

(* cacheManager.get(cacheKey): the stored value while its TTL has not run out *)
HotLookup(w) ==
    IF hot[w] # Nil /\ now < hot[w].expiresAt THEN hot[w].value ELSE Nil

(* mutant: a cached value is never taken for a hit *)
HotHitNever(v) == FALSE

(* if (cachedRedis) *)
HotHit(v) == v # Nil

(* mutant: the entry is stored without the TTL *)
HotEntryNoTtl(rep) == [value |-> rep, expiresAt |-> now]

(* mutant: the entry lives two TTLs *)
HotEntryTwoTtl(rep) == [value |-> rep, expiresAt |-> now + TtlMinutes + TtlMinutes]

(* the entry cacheManager.set(cacheKey, reputation, this.ttl) stores *)
HotEntry(rep) == [value |-> rep, expiresAt |-> now + TtlMinutes]

(* mutant: the delete clears the whole hot cache *)
HotDeleteAll(w) == [v \in Stored |-> Nil]

(* cacheManager.del(cacheKey) *)
HotDelete(w) == [hot EXCEPT ![w] = Nil]

(* mutant: a record exactly 60 minutes old is still used *)
WarmFreshInclusive(rec) == (now - rec.last_synced_at) <= StaleMinutes

(* diffMinutes < 60: a warm record is used if it is less than 60 minutes old *)
WarmFresh(rec) == (now - rec.last_synced_at) < StaleMinutes

(* mutant: the row is stamped with the time of the upsert *)
WarmRowStampedNow(rep) ==
    [score |-> rep.score, tier |-> rep.tier, last_synced_at |-> now]

(* the row persistReputation upserts *)
WarmRow(rep) ==
    [score |-> rep.score, tier |-> rep.tier, last_synced_at |-> rep.lastUpdated]

(* mutant: the delete removes no row *)
WarmDeleteNothing(w) == warm

(* from('reputation_cache').delete().eq('wallet_address', wallet) *)
WarmDelete(w) == [warm EXCEPT ![w] = Nil]

----------------------------------------------------------------------------
(* Calls.  Besides the call's position (pc) and its local `reputation` (rep),
   a record keeps what the call has seen and done so far. *)

Idle ==
    [op |-> "idle", pc |-> "idle", wallet |-> <<>>, rep |-> Nil, result |-> Nil,
     outcome |-> "none", path |-> "none", oracleCalls |-> 0,
     hotSeen |-> Nil, warmSeen |-> Nil, warmAge |-> -1, userFound |-> FALSE,
     hotWrote |-> Nil, warmWrote |-> Nil, tried |-> {}, faults |-> {},
     alone |-> FALSE, afterInv |-> FALSE]

Running(q) == calls[q].pc \notin {"idle", "done"}

OthersOn(p, w) == {q \in Procs \ {p} : Running(q) /\ calls[q].wallet = w}

(* What is kept of a call is its record at the moment it returns: the record
   of a returned call is dropped at the next step of the system. *)
Swept(c) == IF c.pc = "done" THEN Idle ELSE c

(* A call on wallet w begins in the lowest free slot p.  Calls already running
   on w are from now on not the only operation on it. *)
Begin(p, w, op, pc) ==
    /\ ~Running(p)
    /\ \A q \in Procs : q < p => Running(q)
    /\ started < MaxCalls
    /\ started' = started + 1
    /\ calls' = [q \in Procs |->
                   IF q = p
                   THEN [Idle EXCEPT !.op = op, !.pc = pc, !.wallet = w,
                                     !.alone = (OthersOn(p, w) = {}),
                                     !.afterInv = clean[w] /\ OthersOn(p, w) = {}]
                   ELSE IF q \in OthersOn(p, w)
                        THEN [calls[q] EXCEPT !.alone = FALSE, !.afterInv = FALSE]
                        ELSE Swept(calls[q])]
    /\ clean' = [clean EXCEPT ![w] = FALSE]

(* The awaited collaborator call of slot p completes and the call moves on *)
Step(p, rec) ==
    /\ calls' = [q \in Procs |-> IF q = p THEN rec ELSE Swept(calls[q])]
    /\ faulted' = faulted

(* The awaited collaborator call of slot p fails *)
Fail(p, rec) ==
    /\ faulted < MaxFaults
    /\ calls' = [q \in Procs |-> IF q = p THEN rec ELSE Swept(calls[q])]
    /\ faulted' = faulted + 1

Raise(c, what) == [c EXCEPT !.faults = @ \cup {what}, !.tried = @ \cup {what}]

Tried(c, what) == [c EXCEPT !.tried = @ \cup {what}]

Return(c, rep, path) ==
    [c EXCEPT !.pc = "done", !.result = rep, !.outcome = "returned", !.path = path]

(* mutant: the error leaves getReputationData *)
ReadFailedRethrown(c, what) ==
    [Raise(c, what) EXCEPT !.pc = "done", !.outcome = "threw"]

(* An error raised inside getReputationData's try block: control goes to
   catch (error) *)
ReadFailed(c, what) == [Raise(c, what) EXCEPT !.pc = "catch"]

(* mutant: persistReputation does not catch, the error reaches catch (error) *)
PersistFailedEscapes(c, what) == ReadFailed(c, what)

(* An error raised inside persistReputation's try block: it is logged, and
   getReputationData returns the reputation it fetched *)
PersistFailed(c, what) == Return(Raise(c, what), c.rep, "oracle")

(* mutant: the fallback retries the oracle again *)
RetryFailedAgain(c) == [Raise(c, "oracleRetry") EXCEPT !.oracleCalls = @ + 1]

(* The oracle fails inside catch (error): the error leaves getReputationData *)
RetryFailed(c) ==
    [Raise(c, "oracleRetry") EXCEPT !.pc = "done", !.outcome = "threw",
                                    !.path = "fallback", !.oracleCalls = @ + 1]

(* An error raised inside invalidateReputation's try block: it is logged and
   the call returns *)
InvalidateFailed(c, what) ==
    [Raise(c, what) EXCEPT !.pc = "done", !.outcome = "returned"]

----------------------------------------------------------------------------
(* getReputationData *)

StartGet(p, w) ==
    /\ Begin(p, w, "get", "hotGet")
    /\ UNCHANGED <<now, hot, warm, users, faulted, fnIn, fnOut>>

(* 1. HOT CACHE: await this.cacheManager.get(cacheKey) *)
HotGet(p) ==
    LET c == calls[p]
        v == HotLookup(c.wallet)
    IN
    /\ c.pc = "hotGet"
    /\ \E ok \in BOOLEAN :
         IF ~ok
         THEN Fail(p, ReadFailed(c, "hotGet"))
         ELSE IF HotHit(v)
              THEN Step(p, Return([Tried(c, "hotGet") EXCEPT !.hotSeen = v], v, "hot"))
              ELSE Step(p, [Tried(c, "hotGet") EXCEPT !.hotSeen = v,
                                                      !.pc = "warmQuery"])
    /\ UNCHANGED <<now, hot, warm, users, started, clean, fnIn, fnOut>>

(* 2. WARM CACHE: await ...from('reputation_cache').select('*').eq(...).single()
   The query throws, or resolves to {data: null, error}, or to the row (or
   to no row) of the wallet. *)
WarmQuery(p) ==
    LET c == calls[p]
        rec == warm[c.wallet]
        seen == [Tried(c, "warmQuery") EXCEPT
                   !.warmSeen = rec,
                   !.warmAge = IF rec = Nil THEN -1 ELSE now - rec.last_synced_at]
    IN
    /\ c.pc = "warmQuery"
    /\ \E res \in {"ok", "error", "throw"} :
         CASE res = "throw" -> Fail(p, ReadFailed(c, "warmQuery"))
           [] res = "error" -> Fail(p, [Raise(c, "warmError") EXCEPT !.pc = "fetch"])
           [] res = "ok" ->
                IF rec # Nil /\ WarmFresh(rec)
                THEN Step(p, [seen EXCEPT
                                !.pc = "backfill",
                                !.rep = MapToReputation(c.wallet, rec.score,
                                                        rec.last_synced_at)])
                ELSE Step(p, [seen EXCEPT !.pc = "fetch"])
    /\ UNCHANGED <<now, hot, warm, users, started, clean, fnIn, fnOut>>

(* Back-fill Redis hot cache: await this.cacheManager.set(...); return reputation *)
Backfill(p) ==
    LET c == calls[p] IN
    /\ c.pc = "backfill"
    /\ \E ok \in BOOLEAN :
         IF ok
         THEN /\ hot' = [hot EXCEPT ![c.wallet] = HotEntry(c.rep)]
              /\ Step(p, Return([Tried(c, "backfill") EXCEPT
                                   !.hotWrote = HotEntry(c.rep)], c.rep, "warm"))
         ELSE /\ hot' = hot
              /\ Fail(p, ReadFailed(c, "backfill"))
    /\ UNCHANGED <<now, warm, users, started, clean, fnIn, fnOut>>

(* 3. SOURCE OF TRUTH: await this.fetchScoreFromBlockchain(wallet) *)
Fetch(p) ==
    LET c == calls[p] IN
    /\ c.pc = "fetch"
    /\ \E ok \in BOOLEAN :
         IF ok
         THEN Step(p, [Tried(c, "oracle") EXCEPT
                         !.pc = "persistHot",
                         !.oracleCalls = @ + 1,
                         !.rep = MapToReputation(c.wallet, FetchScore(c.wallet), now)])
         ELSE Fail(p, [ReadFailed(c, "oracle") EXCEPT !.oracleCalls = @ + 1])
    /\ UNCHANGED <<now, hot, warm, users, started, clean, fnIn, fnOut>>

(* 4. PERSISTENCE, persistReputation: await this.cacheManager.set(...) *)
PersistHot(p) ==
    LET c == calls[p] IN
    /\ c.pc = "persistHot"
    /\ \E ok \in BOOLEAN :
         IF ok
         THEN /\ hot' = [hot EXCEPT ![c.wallet] = HotEntry(c.rep)]
              /\ Step(p, [Tried(c, "hotSet") EXCEPT
                            !.pc = "persistUser", !.hotWrote = HotEntry(c.rep)])
         ELSE /\ hot' = hot
              /\ Fail(p, PersistFailed(c, "hotSet"))
    /\ UNCHANGED <<now, warm, users, started, clean, fnIn, fnOut>>

(* mutant: the warm record is written whether or not the wallet has a user *)
UserFoundAlways(w) == TRUE

(* const { data: user } = ...from('users')...eq('wallet_address', wallet).single();
   if (user) *)
UserFound(w) == w \in users

(* persistReputation: await ...from('users').select('id').eq(...).single();
   if (user) *)
PersistUser(p) ==
    LET c == calls[p] IN
    /\ c.pc = "persistUser"
    /\ \E ok \in BOOLEAN :
         IF ok
         THEN IF UserFound(c.wallet)
              THEN Step(p, [Tried(c, "userLookup") EXCEPT
                              !.pc = "persistUpsert", !.userFound = TRUE])
              ELSE Step(p, Return(Tried(c, "userLookup"), c.rep, "oracle"))
         ELSE Fail(p, PersistFailed(c, "userLookup"))
    /\ UNCHANGED <<now, hot, warm, users, started, clean, fnIn, fnOut>>

(* persistReputation: await ...from('reputation_cache').upsert({...}) *)
PersistUpsert(p) ==
    LET c == calls[p] IN
    /\ c.pc = "persistUpsert"
    /\ \E ok \in BOOLEAN :
         IF ok
         THEN /\ warm' = [warm EXCEPT ![c.wallet] = WarmRow(c.rep)]
              /\ Step(p, Return([Tried(c, "upsert") EXCEPT
                                   !.warmWrote = WarmRow(c.rep)], c.rep, "oracle"))
         ELSE /\ warm' = warm
              /\ Fail(p, PersistFailed(c, "upsert"))
    /\ UNCHANGED <<now, hot, users, started, clean, fnIn, fnOut>>

(* catch (error): const score = await this.fetchScoreFromBlockchain(wallet);
   return this.mapToReputation(wallet, score, new Date().toISOString()) *)
Catch(p) ==
    LET c == calls[p] IN
    /\ c.pc = "catch"
    /\ \E ok \in BOOLEAN :
         IF ok
         THEN Step(p, Return([Tried(c, "oracleRetry") EXCEPT !.oracleCalls = @ + 1],
                             MapToReputation(c.wallet, FetchScore(c.wallet), now),
                             "fallback"))
         ELSE Fail(p, RetryFailed(c))
    /\ UNCHANGED <<now, hot, warm, users, started, clean, fnIn, fnOut>>

----------------------------------------------------------------------------
(* invalidateReputation *)

StartInvalidate(p, w) ==
    /\ Begin(p, w, "inv", "hotDel")
    /\ UNCHANGED <<now, hot, warm, users, faulted, fnIn, fnOut>>

(* await this.cacheManager.del(cacheKey) *)
HotDel(p) ==
    LET c == calls[p] IN
    /\ c.pc = "hotDel"
    /\ \E ok \in BOOLEAN :
         IF ok
         THEN /\ hot' = HotDelete(c.wallet)
              /\ Step(p, [Tried(c, "hotDel") EXCEPT !.pc = "dbDelete"])
         ELSE /\ hot' = hot
              /\ Fail(p, InvalidateFailed(c, "hotDel"))
    /\ UNCHANGED <<now, warm, users, started, clean, fnIn, fnOut>>

(* await ...from('reputation_cache').delete().eq('wallet_address', wallet) *)
DbDeleteStep(p) ==
    LET c == calls[p] IN
    /\ c.pc = "dbDelete"
    /\ \E ok \in BOOLEAN :
         IF ok
         THEN /\ warm' = WarmDelete(c.wallet)
              /\ clean' = [clean EXCEPT ![c.wallet] = c.alone]
              /\ Step(p, [Tried(c, "dbDelete") EXCEPT !.pc = "done",
                                                      !.outcome = "returned"])
         ELSE /\ warm' = warm
              /\ clean' = clean
              /\ Fail(p, InvalidateFailed(c, "dbDelete"))
    /\ UNCHANGED <<now, hot, users, started>>

DbDelete(p) ==
    /\ DbDeleteStep(p)
    /\ UNCHANGED <<fnIn, fnOut>>

----------------------------------------------------------------------------
(* AuthService.verifySignature, step 5: the user row is created on first auth *)

UpsertUser(w) ==
    /\ w \notin users
    /\ users' = users \cup {w}
    /\ calls' = [q \in Procs |-> Swept(calls[q])]
    /\ UNCHANGED <<now, hot, warm, started, faulted, clean, fnIn, fnOut>>

----------------------------------------------------------------------------
(* The clock.  Redis drops an entry when its TTL has run out. *)

(* the clock reaches instant t *)
Elapse(t) ==
    /\ t > now
    /\ now' = t
    /\ hot' = [w \in Stored |->
                 IF hot[w] # Nil /\ hot[w].expiresAt <= t THEN Nil ELSE hot[w]]
    /\ calls' = [q \in Procs |-> Swept(calls[q])]
    /\ UNCHANGED <<warm, users, started, faulted, clean>>

Tick ==
    /\ \E t \in Instants : Elapse(t)
    /\ UNCHANGED <<fnIn, fnOut>>

----------------------------------------------------------------------------

NoInput == [wallet |-> <<>>, score |-> 0, lastUpdated |-> 0]

Init ==
    /\ now = 0
    /\ hot = [w \in Stored |-> Nil]
    /\ warm = [w \in Stored |-> Nil]
    /\ users = {}
    /\ calls = [p \in Procs |-> Idle]
    /\ started = 0
    /\ faulted = 0
    /\ clean = [w \in Stored |-> FALSE]
    /\ fnIn = NoInput
    /\ fnOut = Nil

Next ==
    \/ \E p \in Procs, w \in Wallets : StartGet(p, w)
    \/ \E p \in Procs : HotGet(p)
    \/ \E p \in Procs : WarmQuery(p)
    \/ \E p \in Procs : Backfill(p)
    \/ \E p \in Procs : Fetch(p)
    \/ \E p \in Procs : PersistHot(p)
    \/ \E p \in Procs : PersistUser(p)
    \/ \E p \in Procs : PersistUpsert(p)
    \/ \E p \in Procs : Catch(p)
    \/ \E p \in Procs, w \in Wallets : StartInvalidate(p, w)
    \/ \E p \in Procs : HotDel(p)
    \/ \E p \in Procs : DbDelete(p)
    \/ \E w \in Wallets : UpsertUser(w)
    \/ Tick

Spec == Init /\ [][Next]_vars

----------------------------------------------------------------------------
(* The tier classifier applied to inputs drawn from bounded sets *)

ClassifyInputs ==
    [wallet : {WalletA, <<71>>}, score : 0..(ScoreModulus - 1), lastUpdated : {0, 61}]

InitClassify ==
    /\ now = 0
    /\ hot = [w \in Stored |-> Nil]
    /\ warm = [w \in Stored |-> Nil]
    /\ users = {}
    /\ calls = [p \in Procs |-> Idle]
    /\ started = 0
    /\ faulted = 0
    /\ clean = [w \in Stored |-> FALSE]
    /\ fnIn \in ClassifyInputs
    /\ fnOut = Nil

Classify ==
    /\ fnOut = Nil
    /\ fnOut' = MapToReputation(fnIn.wallet, fnIn.score, fnIn.lastUpdated)
    /\ UNCHANGED <<now, hot, warm, users, calls, started, faulted, clean, fnIn>>

NextClassify == Classify

SpecClassify == InitClassify /\ [][NextClassify]_vars

----------------------------------------------------------------------------
(* The reputation service with no request in progress and empty caches *)

ServiceAtRest ==
    /\ now = 0
    /\ hot = [w \in Stored |-> Nil]
    /\ warm = [w \in Stored |-> Nil]
    /\ users = {}
    /\ calls = [p \in Procs |-> Idle]
    /\ started = 0
    /\ faulted = 0
    /\ clean = [w \in Stored |-> FALSE]

serviceVars == <<now, hot, warm, users, calls, started, faulted, clean>>

----------------------------------------------------------------------------
(* fetchScoreFromBlockchain applied to wallet strings drawn from a bounded
   set, one loop iteration per step *)

MaxWalletLen == 6

(* UTF-16 code units of the strings: "2", "G", "Z" and the largest unit *)
CodeUnits == {50, 71, 90, 65535}

WalletStrings == UNION {[1..n -> CodeUnits] : n \in 0..MaxWalletLen}

InitHash ==
    /\ ServiceAtRest
    /\ fnIn \in [wallet : WalletStrings]
    /\ fnOut = [pc |-> "loop", i |-> 0, hash |-> 0, result |-> Nil]

(* one iteration of the for loop *)
HashLoop ==
    /\ fnOut.pc = "loop"
    /\ fnOut.i < Len(fnIn.wallet)
    /\ fnOut' = [fnOut EXCEPT !.i = @ + 1,
                              !.hash = HashStep(@, fnIn.wallet[fnOut.i + 1])]
    /\ UNCHANGED <<serviceVars, fnIn>>

(* the loop is over: return Math.abs(hash % 101) *)
HashReturn ==
    /\ fnOut.pc = "loop"
    /\ fnOut.i = Len(fnIn.wallet)
    /\ fnOut' = [fnOut EXCEPT !.pc = "returned",
                              !.result = AbsRem(fnOut.hash, ScoreModulus)]
    /\ UNCHANGED <<serviceVars, fnIn>>

NextHash == HashLoop \/ HashReturn

SpecHash == InitHash /\ [][NextHash]_vars

----------------------------------------------------------------------------
(* LoansService (src/src/modules/loans/loans.service.ts).

   Currency amounts are JavaScript doubles holding dollars with two decimals;
   the model holds them as integers of cents.  A double product or quotient
   is the exact value up to a relative error of a few 2^-53, so Math.round
   and Math.floor applied to it give the result of the exact value except
   where the exact value lies on the boundary of the rounding: there the
   error decides, and the model admits both outcomes. *)

GUARANTEE_PERCENT == 20    \* 0.2, in hundredths
LOAN_PERCENT == 80         \* 0.8, in hundredths
CentsPerDollar == 100      \* the "* 100 ... / 100" of every rounding
PercentBase == 100         \* interestRate / 100
MonthsPerYear == 12        \* dto.term / 12

FloorDiv(num, den) == num \div den

(* Math.round(x * 100) for the double x that stands for num/den cents:
   the nearest integer, ties towards +infinity; on an exact tie the double may
   sit on either side *)
RoundCents(num, den) ==
    LET q == FloorDiv(num, den)
        r == num % den
    IN  IF 2 * r = den THEN {q, q + 1}
        ELSE IF 2 * r > den THEN {q + 1}
        ELSE {q}

(* Doubles of the schedule's division, computed bit for bit.  A positive
   double is [m, e], of value m * 2^e, its significand m an integer of exactly
   53 bits held as a sequence of 15-bit limbs, the least significant first
   (no intermediate value leaves TLC's 32-bit integers). *)

LimbBits == 15
Limb == 32768
MantissaBits == 53
GuardBits == 10

RECURSIVE BitLenInt(_)
BitLenInt(n) == IF n = 0 THEN 0 ELSE 1 + BitLenInt(n \div 2)

RECURSIVE Trim(_)
Trim(b) ==
    IF b = <<>> THEN b
    ELSE IF b[Len(b)] = 0 THEN Trim(SubSeq(b, 1, Len(b) - 1))
    ELSE b

BitLen(b) ==
    LET t == Trim(b)
    IN  IF t = <<>> THEN 0 ELSE (Len(t) - 1) * LimbBits + BitLenInt(t[Len(t)])

RECURSIVE MulFrom(_, _, _, _)
MulFrom(b, n, i, carry) ==
    IF i > Len(b) THEN (IF carry = 0 THEN <<>> ELSE <<carry>>)
    ELSE LET v == b[i] * n + carry
         IN  <<v % Limb>> \o MulFrom(b, n, i + 1, v \div Limb)

(* b * n, for 0 <= n <= 2^15 *)
MulSmall(b, n) == MulFrom(b, n, 1, 0)

RECURSIVE DivFrom(_, _, _, _)
DivFrom(b, n, i, rem) ==
    IF i = 0 THEN [q |-> <<>>, r |-> rem]
    ELSE LET v    == rem * Limb + b[i]
             rest == DivFrom(b, n, i - 1, v % n)
         IN  [q |-> Append(rest.q, v \div n), r |-> rest.r]

(* quotient and remainder of b by n, for 1 <= n <= 2^15 *)
DivSmall(b, n) ==
    LET d == DivFrom(b, n, Len(b), 0) IN [q |-> Trim(d.q), r |-> d.r]

RECURSIVE ShiftLeft(_, _)
ShiftLeft(b, k) ==
    IF k = 0 THEN b
    ELSE IF k >= LimbBits THEN ShiftLeft(<<0>> \o b, k - LimbBits)
    ELSE MulSmall(b, 2 ^ k)

RECURSIVE AddOneFrom(_, _)
AddOneFrom(b, i) ==
    IF i > Len(b) THEN Append(b, 1)
    ELSE IF b[i] + 1 < Limb THEN [b EXCEPT ![i] = @ + 1]
    ELSE AddOneFrom([b EXCEPT ![i] = 0], i + 1)

RECURSIVE ToInt(_)
ToInt(b) == IF b = <<>> THEN 0 ELSE b[1] + Limb * ToInt(Tail(b))

RECURSIVE FromInt(_)
FromInt(n) == IF n = 0 THEN <<>> ELSE <<n % Limb>> \o FromInt(n \div Limb)

(* the double nearest to b * 2^e (plus a fraction of its last bit when
   sticky), ties to the even significand: IEEE 754 round-to-nearest *)
RoundToDouble(b, sticky, e) ==
    LET s == BitLen(b) - MantissaBits
    IN  IF s <= 0 THEN [m |-> ShiftLeft(Trim(b), -s), e |-> e + s]
        ELSE LET d    == DivSmall(b, 2 ^ s)
                 half == 2 ^ (s - 1)
                 odd  == d.q[1] % 2 = 1
                 up   == d.r > half \/ (d.r = half /\ (sticky \/ odd))
                 m    == IF up THEN AddOneFrom(d.q, 1) ELSE d.q
             IN  IF BitLen(m) > MantissaBits
                 THEN [m |-> DivSmall(m, 2).q, e |-> e + s + 1]
                 ELSE [m |-> m, e |-> e + s]

(* the double of an integer below 2^31 *)
DoubleOf(n) == RoundToDouble(FromInt(n), FALSE, 0)

(* x / n in double arithmetic, n an integer of 1..100 *)
DivDouble(x, n) ==
    LET d == DivSmall(ShiftLeft(x.m, GuardBits), n)
    IN  RoundToDouble(d.q, d.r # 0, x.e - GuardBits)

(* x * n in double arithmetic, n an integer of 1..100 *)
MulDouble(x, n) == RoundToDouble(MulSmall(x.m, n), FALSE, x.e)

(* Math.floor(x), for x below 2^31 *)
FloorDouble(x) ==
    IF x.e >= 0 THEN ToInt(ShiftLeft(x.m, x.e))
    ELSE LET k    == -x.e
             rest == IF k \div LimbBits >= Len(x.m) THEN <<>>
                     ELSE SubSeq(x.m, (k \div LimbBits) + 1, Len(x.m))
         IN  ToInt(DivSmall(rest, 2 ^ (k % LimbBits)).q)

(* the double that holds an amount of whole cents: the one nearest to
   cents / 100 *)
Dollars(cents) == DivDouble(DoubleOf(cents), CentsPerDollar)

(* Math.floor((totalRepayment / term) * 100), the monthly payment in cents:
   where totalRepayment / term is a whole number of cents the double product
   can fall just below it (0.58 / 2 * 100 is 28.999999999999996) *)
FloorCents(totalRepayment, term) ==
    {FloorDouble(MulDouble(DivDouble(Dollars(totalRepayment), term), CentsPerDollar))}

----------------------------------------------------------------------------
(* Date: local calendar dates [year, month (0..11), day] of a server whose
   time zone has no daylight-saving shifts *)

IsLeap(y) == (y % 4 = 0 /\ y % 100 # 0) \/ y % 400 = 0

DaysInMonth(y, m) ==
    IF m = 1 THEN (IF IsLeap(y) THEN 29 ELSE 28)
    ELSE IF m \in {3, 5, 8, 10} THEN 30
    ELSE 31

RECURSIVE DaysBeforeMonth(_, _)
DaysBeforeMonth(y, m) ==
    IF m = 0 THEN 0 ELSE DaysBeforeMonth(y, m - 1) + DaysInMonth(y, m - 1)

DaysBeforeYear(y) ==
    365 * (y - 1) + ((y - 1) \div 4) - ((y - 1) \div 100) + ((y - 1) \div 400)

(* the day number of a calendar date (Day(t) of ECMAScript, from another origin) *)
DayNumber(date) ==
    DaysBeforeYear(date.year) + DaysBeforeMonth(date.year, date.month) + date.day - 1

(* mutant: the months are not carried into the year *)
SetMonthSameYear(date, i) ==
    LET m   == (date.month + i) % MonthsPerYear
        len == DaysInMonth(date.year, m)
    IN  IF date.day <= len THEN [year |-> date.year, month |-> m, day |-> date.day]
        ELSE [year |-> date.year, month |-> m + 1, day |-> date.day - len]

(* dueDate.setMonth(dueDate.getMonth() + i); dueDate.setHours(0, 0, 0, 0):
   MakeDay carries the months into the year and lets a day past the end of
   the month run over into the next month *)
SetMonth(date, i) ==
    LET months == date.month + i
        y      == date.year + (months \div MonthsPerYear)
        m      == months % MonthsPerYear
        len    == DaysInMonth(y, m)
    IN  IF date.day <= len THEN [year |-> y, month |-> m, day |-> date.day]
        ELSE IF m = MonthsPerYear - 1
             THEN [year |-> y + 1, month |-> 0, day |-> date.day - len]
             ELSE [year |-> y, month |-> m + 1, day |-> date.day - len]

----------------------------------------------------------------------------
(* generateSchedule *)

(* mutant: the last payment is a monthly payment like the others *)
LastPaymentMonthly(totalRepayment, allocated, monthlyPayment) == monthlyPayment

(* Math.round((totalRepayment - allocated) * 100) / 100: a difference of two
   amounts of whole cents, off any rounding boundary *)
LastPayment(totalRepayment, allocated, monthlyPayment) == totalRepayment - allocated

(* mutant: the payments are numbered from 0 *)
PaymentZeroBased(i, amount, today) ==
    [paymentNumber |-> i - 1, amount |-> amount, dueDate |-> SetMonth(today, i)]

(* the object pushed by iteration i *)
Payment(i, amount, today) ==
    [paymentNumber |-> i, amount |-> amount, dueDate |-> SetMonth(today, i)]

(* the for loop from iteration i on *)
RECURSIVE ScheduleFrom(_, _, _, _, _, _, _)
ScheduleFrom(i, totalRepayment, term, monthlyPayment, today, allocated, schedule) ==
    IF i > term THEN schedule
    ELSE LET isLast == i = term
             amount == IF isLast
                       THEN LastPayment(totalRepayment, allocated, monthlyPayment)
                       ELSE monthlyPayment
         IN  ScheduleFrom(i + 1, totalRepayment, term, monthlyPayment, today,
                          allocated + amount,
                          Append(schedule, Payment(i, amount, today)))

(* the schedules generateSchedule(totalRepayment, term) can return on the day
   `today`, one per value the monthly payment can take *)
GenerateSchedule(totalRepayment, term, today) ==
    {ScheduleFrom(1, totalRepayment, term, monthlyPayment, today, 0, <<>>) :
        monthlyPayment \in FloorCents(totalRepayment, term)}

----------------------------------------------------------------------------
(* calculateLoanQuote *)

(* what from('merchants').select(...).eq('id', merchantId).single() resolves
   to: the row, no row (PostgREST reports it as an error), or a failure of the
   store *)
MerchantActive   == [data |-> [is_active |-> TRUE], error |-> Nil]
MerchantInactive == [data |-> [is_active |-> FALSE], error |-> Nil]
MerchantAbsent   == [data |-> Nil, error |-> [code |-> "PGRST116"]]
MerchantStoreError == [data |-> Nil, error |-> [code |-> "08006"]]

MerchantAnswers ==
    {MerchantActive, MerchantInactive, MerchantAbsent, MerchantStoreError}

(* mutant: only a missing row counts as not found *)
MerchantMissingRowOnly(answer) == answer.data = Nil /\ answer.error = Nil

(* if (error || !merchant) *)
MerchantMissing(answer) == answer.error # Nil \/ answer.data = Nil

(* mutant: an inactive merchant passes *)
MerchantBlockedNever(answer) == FALSE

(* if (!merchant.is_active) *)
MerchantBlocked(answer) == ~answer.data.is_active

(* mutant: the limit itself is refused *)
ExceedsCreditInclusive(amount, reputation) ==
    amount >= reputation.maxCredit * CentsPerDollar

(* if (dto.amount > reputation.maxCredit) *)
ExceedsCredit(amount, reputation) ==
    amount > reputation.maxCredit * CentsPerDollar

(* mutant: the guarantee is cut down to the cent *)
GuaranteeTruncated(amount) ==
    {FloorDiv(amount * GUARANTEE_PERCENT, PercentBase)}

(* Math.round(dto.amount * GUARANTEE_PERCENT * 100) / 100 *)
Guarantee(amount) == RoundCents(amount * GUARANTEE_PERCENT, PercentBase)

(* Math.round(dto.amount * LOAN_PERCENT * 100) / 100 *)
LoanAmount(amount) == RoundCents(amount * LOAN_PERCENT, PercentBase)

(* mutant: the total is cut down to the cent *)
TotalRepaymentTruncated(loanAmount, interestRate, term) ==
    {FloorDiv(loanAmount * PercentBase * MonthsPerYear
                  + loanAmount * interestRate * term,
              PercentBase * MonthsPerYear)}

(* interest = loanAmount * (interestRate / 100) * (term / 12);
   Math.round((loanAmount + interest) * 100) / 100 *)
TotalRepayment(loanAmount, interestRate, term) ==
    RoundCents(loanAmount * PercentBase * MonthsPerYear
                   + loanAmount * interestRate * term,
               PercentBase * MonthsPerYear)

Thrown(exception, code) == [exception |-> exception, code |-> code]

(* the quotes the arithmetic of calculateLoanQuote can return *)
Quotes(dto, reputation, today) ==
    {[amount |-> dto.amount, guarantee |-> guarantee, loanAmount |-> loanAmount,
      interestRate |-> reputation.interestRate, totalRepayment |-> totalRepayment,
      term |-> dto.term, schedule |-> schedule] :
        <<guarantee, loanAmount, totalRepayment, schedule>> \in
            UNION {UNION {UNION {{<<g, l, t, sch>> :
                                     sch \in GenerateSchedule(t, dto.term, today)} :
                              t \in TotalRepayment(l, reputation.interestRate, dto.term)} :
                       l \in LoanAmount(dto.amount)} :
                   g \in Guarantee(dto.amount)}}

MinAmount == 100       \* @Min(1), in cents
MaxAmount == 1000000   \* @Max(10000), in cents
MinTerm == 1
MaxTerm == 12

(* how many amounts above the least one are tried cent by cent *)
AmountSpan == 30

(* dto.amount, in cents: the least amounts cent by cent, the amounts of the
   unit tests, each tier's credit limit with the cent below and above it, and
   the largest amount *)
Amounts ==
    (MinAmount..(MinAmount + AmountSpan))
        \cup {20000, 33300, 100000, MaxAmount}
        \cup UNION {{l * CentsPerDollar - 1, l * CentsPerDollar, l * CentsPerDollar + 1} :
                       l \in {500, 1500, 3000, 5000}}

(* one score per row of the threshold table, on its lower edge *)
QuoteScores == {59, 60, 75, 90}

(* the day the quote is computed *)
QuoteDay == [year |-> 2026, month |-> 0, day |-> 31]

QuoteInputs ==
    [wallet : Wallets, amount : Amounts, term : MinTerm..MaxTerm,
     merchant : MerchantAnswers, score : QuoteScores, oracleUp : BOOLEAN]

QuoteStart ==
    [pc |-> "reputation", reputation |-> Nil, outcome |-> "none",
     error |-> Nil, quote |-> Nil, gates |-> <<>>]

InitQuote ==
    /\ ServiceAtRest
    /\ fnIn \in QuoteInputs
    /\ fnOut = QuoteStart

QuoteThrow(exception, code) ==
    [fnOut EXCEPT !.pc = "done", !.outcome = "threw",
                  !.error = Thrown(exception, code)]

(* await this.reputationService.getReputationScore(wallet): the snapshot of
   the wallet's score, or the oracle's failure *)
QuoteReputation ==
    /\ fnOut.pc = "reputation"
    /\ fnOut' = IF fnIn.oracleUp
                THEN [fnOut EXCEPT !.pc = "merchant",
                                   !.gates = Append(@, "reputation"),
                                   !.reputation =
                                       MapToReputation(fnIn.wallet, fnIn.score, now)]
                ELSE [QuoteThrow("Error", "oracle") EXCEPT
                                   !.gates = Append(@, "reputation")]
    /\ UNCHANGED <<serviceVars, fnIn>>

(* await this.validateMerchant(dto.merchant) *)
QuoteMerchant ==
    /\ fnOut.pc = "merchant"
    /\ LET at == [fnOut EXCEPT !.gates = Append(@, "merchant")] IN
       fnOut' = IF MerchantMissing(fnIn.merchant)
                THEN [at EXCEPT !.pc = "done", !.outcome = "threw",
                                !.error = Thrown("NotFoundException", "MERCHANT_NOT_FOUND")]
                ELSE IF MerchantBlocked(fnIn.merchant)
                THEN [at EXCEPT !.pc = "done", !.outcome = "threw",
                                !.error = Thrown("BadRequestException", "MERCHANT_INACTIVE")]
                ELSE [at EXCEPT !.pc = "credit"]
    /\ UNCHANGED <<serviceVars, fnIn>>

(* the credit gate, the breakdown and the schedule *)
QuoteCompute ==
    /\ fnOut.pc = "credit"
    /\ LET at == [fnOut EXCEPT !.gates = Append(@, "credit")] IN
       IF ExceedsCredit(fnIn.amount, fnOut.reputation)
       THEN fnOut' = [at EXCEPT !.pc = "done", !.outcome = "threw",
                                !.error = Thrown("BadRequestException",
                                                 "LOAN_AMOUNT_EXCEEDS_CREDIT")]
       ELSE \E quote \in Quotes(fnIn, fnOut.reputation, QuoteDay) :
                fnOut' = [at EXCEPT !.pc = "done", !.outcome = "returned",
                                    !.quote = quote]
    /\ UNCHANGED <<serviceVars, fnIn>>

NextQuote == QuoteReputation \/ QuoteMerchant \/ QuoteCompute

SpecQuote == InitQuote /\ [][NextQuote]_vars

----------------------------------------------------------------------------
(* generateSchedule applied on its own, to totals and to generation days
   drawn from bounded sets *)

(* the largest of the totals tried cent by cent from one cent on *)
MaxTotal == 60

(* totalRepayment, in cents: the least totals cent by cent, the totals of
   the unit tests, and the total of a quote of 200.00 at 18% over 10 months *)
Totals ==
    (1..MaxTotal) \cup {10000, 18400, 20000, 30000, 40000, 41067, 50000, 60000}

(* years of the generation days: before a leap year that is a multiple of
   400, before a leap year, a leap year, and before a multiple of 100 that is
   no leap year *)
Years == {1999, 2027, 2028, 2099}

GenerationDays ==
    {date \in [year : Years, month : 0..(MonthsPerYear - 1), day : 1..31] :
        date.day <= DaysInMonth(date.year, date.month)}

ScheduleStart == [pc |-> "call", schedule |-> <<>>]

InitSchedule ==
    /\ ServiceAtRest
    /\ fnIn \in [totalRepayment : Totals, term : MinTerm..MaxTerm, today : {QuoteDay}]
    /\ fnOut = ScheduleStart

InitDueDates ==
    /\ ServiceAtRest
    /\ fnIn \in [totalRepayment : {41067}, term : MinTerm..MaxTerm,
                 today : GenerationDays]
    /\ fnOut = ScheduleStart

Generate ==
    /\ fnOut.pc = "call"
    /\ \E schedule \in GenerateSchedule(fnIn.totalRepayment, fnIn.term, fnIn.today) :
           fnOut' = [pc |-> "returned", schedule |-> schedule]
    /\ UNCHANGED <<serviceVars, fnIn>>

NextSchedule == Generate

SpecSchedule == InitSchedule /\ [][NextSchedule]_vars

SpecDueDates == InitDueDates /\ [][NextSchedule]_vars

----------------------------------------------------------------------------
(* AuthService.verifySignature (src/src/modules/auth/auth.service.ts): two
   requests that present the same wallet and the same nonce.  fnIn is what
   the requests and the users table hold at the start; fnOut holds the nonce
   row, the users row, the sessions created and each request's progress.
   Every awaited store call is one step; the code between two awaits runs
   with the step before it. *)

NONCE_EXPIRATION_SECONDS == 300

(* the instants, in minutes, of the requests' steps: the issue of the nonce,
   its expires_at, and the minute after *)
NonceExpiresAt == NONCE_EXPIRATION_SECONDS \div SecondsPerMinute
AuthInstants == {0, NonceExpiresAt, NonceExpiresAt + 1}

AuthInputs ==
    [wallet : Wallets,
     signatureValid : [Procs -> BOOLEAN],
     userStatus : {"absent", "active", "blocked"}]

AuthCallStart ==
    [pc |-> "fetchNonce", nonceRecord |-> Nil, outcome |-> "none",
     code |-> "none", fault |-> FALSE]

InitAuth ==
    /\ ServiceAtRest
    /\ fnIn \in AuthInputs
    /\ fnOut = [nonce |-> [id |-> 1, used_at |-> Nil, expires_at |-> NonceExpiresAt],
                user |-> fnIn.userStatus,
                sessions |-> 0,
                calls |-> [p \in Procs |-> AuthCallStart]]

AuthThrow(c, code) == [c EXCEPT !.pc = "done", !.outcome = "threw", !.code = code]

(* mutant: the row is matched whether used or not *)
NonceMatchAny(row) == TRUE

(* .is('used_at', null) *)
NonceMatch(row) == row.used_at = Nil

(* mutant: no row is ever marked *)
MarkUsedNothing(row, seen, at) == row

(* .update({ used_at }).eq('id', nonceRecord.id): the row with that id is
   stamped, whatever its used_at was *)
MarkUsed(row, seen, at) ==
    IF row.id = seen.id THEN [row EXCEPT !.used_at = [time |-> at]] ELSE row

(* steps 1 to 3: the nonce is fetched, then its expiry and the signature are
   checked *)
AuthFetchNonce(p) ==
    LET c == fnOut.calls[p] IN
    /\ c.pc = "fetchNonce"
    /\ \E ok \in BOOLEAN :
         fnOut' = [fnOut EXCEPT !.calls[p] =
             IF ~ok THEN [AuthThrow(c, "AUTH_NONCE_NOT_FOUND") EXCEPT !.fault = TRUE]
             ELSE IF ~NonceMatch(fnOut.nonce) THEN AuthThrow(c, "AUTH_NONCE_NOT_FOUND")
             ELSE IF fnOut.nonce.expires_at < now
                  THEN [AuthThrow(c, "AUTH_NONCE_EXPIRED") EXCEPT
                            !.nonceRecord = fnOut.nonce]
             ELSE IF ~fnIn.signatureValid[p]
                  THEN [AuthThrow(c, "AUTH_SIGNATURE_INVALID") EXCEPT
                            !.nonceRecord = fnOut.nonce]
             ELSE [c EXCEPT !.pc = "markUsed", !.nonceRecord = fnOut.nonce]]
    /\ UNCHANGED <<serviceVars, fnIn>>

(* step 4: the update's outcome is not looked at *)
AuthMarkUsed(p) ==
    LET c == fnOut.calls[p] IN
    /\ c.pc = "markUsed"
    /\ \E ok \in BOOLEAN :
         fnOut' = [fnOut EXCEPT
                      !.nonce = IF ok THEN MarkUsed(@, c.nonceRecord, now) ELSE @,
                      !.calls[p] = [c EXCEPT !.pc = "upsertUser",
                                             !.fault = @ \/ ~ok]]
    /\ UNCHANGED <<serviceVars, fnIn>>

(* steps 5 and 6: the users row is created or touched, a blocked account is
   refused *)
AuthUpsertUser(p) ==
    LET c == fnOut.calls[p] IN
    /\ c.pc = "upsertUser"
    /\ \E ok \in BOOLEAN :
         LET status == IF fnOut.user = "absent" THEN "active" ELSE fnOut.user IN
         fnOut' = IF ~ok
                  THEN [fnOut EXCEPT !.calls[p] =
                           [AuthThrow(c, "DATABASE_USER_UPSERT_FAILED") EXCEPT
                                !.fault = TRUE]]
                  ELSE [fnOut EXCEPT
                           !.user = status,
                           !.calls[p] = IF status = "blocked"
                                        THEN AuthThrow(c, "AUTH_USER_BLOCKED")
                                        ELSE [c EXCEPT !.pc = "session"]]
    /\ UNCHANGED <<serviceVars, fnIn>>

(* step 7, generateTokens: the session is stored and the tokens returned *)
AuthGenerateTokens(p) ==
    LET c == fnOut.calls[p] IN
    /\ c.pc = "session"
    /\ \E ok \in BOOLEAN :
         fnOut' = IF ~ok
                  THEN [fnOut EXCEPT !.calls[p] =
                           [AuthThrow(c, "DATABASE_SESSION_CREATE_FAILED") EXCEPT
                                !.fault = TRUE]]
                  ELSE [fnOut EXCEPT
                           !.sessions = @ + 1,
                           !.calls[p] = [c EXCEPT !.pc = "done",
                                                  !.outcome = "tokens"]]
    /\ UNCHANGED <<serviceVars, fnIn>>

AuthTick ==
    /\ \E t \in AuthInstants : t > now /\ now' = t
    /\ UNCHANGED <<hot, warm, users, calls, started, faulted, clean, fnIn, fnOut>>

NextAuth ==
    \/ \E p \in Procs : AuthFetchNonce(p)
    \/ \E p \in Procs : AuthMarkUsed(p)
    \/ \E p \in Procs : AuthUpsertUser(p)
    \/ \E p \in Procs : AuthGenerateTokens(p)
    \/ AuthTick

SpecAuth == InitAuth /\ [][NextAuth]_vars

----------------------------------------------------------------------------
(* The reputation service on a clock that runs past 60 minutes plus one TTL.
   The history kept here, fnOut.slow, tells whether the clock has ever moved
   while a call was in progress. *)

StalenessInstants == {0, 59, 60, 65}

InitStaleness ==
    /\ ServiceAtRest
    /\ fnIn = NoInput
    /\ fnOut = [slow |-> FALSE]

TickStaleness ==
    /\ \E t \in StalenessInstants : Elapse(t)
    /\ fnOut' = [slow |-> fnOut.slow \/ \E p \in Procs : Running(p)]
    /\ fnIn' = fnIn

NextStaleness ==
    \/ \E p \in Procs, w \in Wallets : StartGet(p, w)
    \/ \E p \in Procs : HotGet(p)
    \/ \E p \in Procs : WarmQuery(p)
    \/ \E p \in Procs : Backfill(p)
    \/ \E p \in Procs : Fetch(p)
    \/ \E p \in Procs : PersistHot(p)
    \/ \E p \in Procs : PersistUser(p)
    \/ \E p \in Procs : PersistUpsert(p)
    \/ \E p \in Procs : Catch(p)
    \/ \E p \in Procs, w \in Wallets : StartInvalidate(p, w)
    \/ \E p \in Procs : HotDel(p)
    \/ \E p \in Procs : DbDelete(p)
    \/ \E w \in Wallets : UpsertUser(w)
    \/ TickStaleness

SpecStaleness == InitStaleness /\ [][NextStaleness]_vars

----------------------------------------------------------------------------
(* The reputation service with a history of its invalidations: fnOut.doneAt is
   the instant at which an invalidateReputation last cleared both caches (-1
   before any), and fnOut.since[p] is its value when the read of slot p began. *)

InitInvalidation ==
    /\ ServiceAtRest
    /\ fnIn = NoInput
    /\ fnOut = [doneAt |-> -1, since |-> [p \in Procs |-> -1]]

StartGetSince(p, w) ==
    /\ Begin(p, w, "get", "hotGet")
    /\ fnOut' = [fnOut EXCEPT !.since[p] = fnOut.doneAt]
    /\ UNCHANGED <<now, hot, warm, users, faulted, fnIn>>

DbDeleteDone(p) ==
    /\ DbDeleteStep(p)
    /\ fnOut' = IF calls'[p].outcome = "returned"
                THEN [fnOut EXCEPT !.doneAt = now]
                ELSE fnOut
    /\ fnIn' = fnIn

NextInvalidation ==
    \/ \E p \in Procs, w \in Wallets : StartGetSince(p, w)
    \/ \E p \in Procs : HotGet(p)
    \/ \E p \in Procs : WarmQuery(p)
    \/ \E p \in Procs : Backfill(p)
    \/ \E p \in Procs : Fetch(p)
    \/ \E p \in Procs : PersistHot(p)
    \/ \E p \in Procs : PersistUser(p)
    \/ \E p \in Procs : PersistUpsert(p)
    \/ \E p \in Procs : Catch(p)
    \/ \E p \in Procs, w \in Wallets : StartInvalidate(p, w)
    \/ \E p \in Procs : HotDel(p)
    \/ \E p \in Procs : DbDeleteDone(p)
    \/ \E w \in Wallets : UpsertUser(w)
    \/ Tick

SpecInvalidation == InitInvalidation /\ [][NextInvalidation]_vars

----------------------------------------------------------------------------
(* The reputation service when invalidateReputation is never called *)

NextReads ==
    \/ \E p \in Procs, w \in Wallets : StartGet(p, w)
    \/ \E p \in Procs : HotGet(p)
    \/ \E p \in Procs : WarmQuery(p)
    \/ \E p \in Procs : Backfill(p)
    \/ \E p \in Procs : Fetch(p)
    \/ \E p \in Procs : PersistHot(p)
    \/ \E p \in Procs : PersistUser(p)
    \/ \E p \in Procs : PersistUpsert(p)
    \/ \E p \in Procs : Catch(p)
    \/ \E w \in Wallets : UpsertUser(w)
    \/ Tick

SpecReads == Init /\ [][NextReads]_vars

----------------------------------------------------------------------------
(* The reputation service called for two wallets.  The clock stands still:
   no hot entry expires and no warm record ages. *)

InitIsolation ==
    /\ now = 0
    /\ hot = [w \in Stored |-> Nil]
    /\ warm = [w \in Stored |-> Nil]
    /\ users = {}
    /\ calls = [p \in Procs |-> Idle]
    /\ started = 0
    /\ faulted = 0
    /\ clean = [w \in Stored |-> FALSE]
    /\ fnIn = NoInput
    /\ fnOut = Nil

NextIsolation ==
    \/ \E p \in Procs, w \in Stored : StartGet(p, w)
    \/ \E p \in Procs : HotGet(p)
    \/ \E p \in Procs : WarmQuery(p)
    \/ \E p \in Procs : Backfill(p)
    \/ \E p \in Procs : Fetch(p)
    \/ \E p \in Procs : PersistHot(p)
    \/ \E p \in Procs : PersistUser(p)
    \/ \E p \in Procs : PersistUpsert(p)
    \/ \E p \in Procs : Catch(p)
    \/ \E p \in Procs, w \in Stored : StartInvalidate(p, w)
    \/ \E p \in Procs : HotDel(p)
    \/ \E p \in Procs : DbDelete(p)
    \/ \E w \in Stored : UpsertUser(w)

SpecIsolation == InitIsolation /\ [][NextIsolation]_vars

----------------------------------------------------------------------------
(* Properties *)

(* The threshold table of the tier classifier, row by score range *)
ThresholdRow(score) ==
    CASE score \in 90..100 -> <<"gold", 5, 5000>>
      [] score \in 75..89  -> <<"silver", 8, 3000>>
      [] score \in 60..74  -> <<"bronze", 12, 1500>>
      [] score < 60        -> <<"poor", 18, 500>>

Terms(rep) == <<rep.tier, rep.interestRate, rep.maxCredit>>

Gets == {p \in Procs : calls[p].op = "get"}
Invalidations == {p \in Procs : calls[p].op = "inv"}
Returned(c) == c.pc = "done" /\ c.outcome = "returned"

ReadFaults == {"hotGet", "warmQuery", "backfill"}
PersistFaults == {"hotSet", "userLookup", "upsert"}

(* C1: a getReputationData call that finds a present, unexpired hot-cache
   entry returns exactly that entry, and in that call there is no warm-store
   query, no oracle call and no write to either cache. *)
C1_HotHitReturnsEntry ==
    \A p \in Gets :
        LET c == calls[p] IN
        c.hotSeen # Nil =>
            /\ Returned(c)
            /\ c.result = c.hotSeen
            /\ hot[c.wallet] # Nil
            /\ hot[c.wallet].value = c.result
            /\ now < hot[c.wallet].expiresAt
            /\ c.tried = {"hotGet"}
            /\ c.oracleCalls = 0
            /\ c.hotWrote = Nil
            /\ c.warmWrote = Nil

C1_Witness ==
    \E p \in Gets : calls[p].hotSeen # Nil /\ calls[p].path = "hot"

(* C2: on a hot miss with a warm record less than 60 minutes old, a call in
   which no collaborator fails returns the snapshot classified from the
   stored score, has written that same snapshot into the hot cache under the
   wallet's key with the configured TTL, and has not called the oracle. *)
C2_WarmHitBackfills ==
    \A p \in Gets :
        LET c == calls[p] IN
        (c.pc = "done" /\ c.warmSeen # Nil /\ c.warmAge < StaleMinutes
                       /\ c.faults = {}) =>
            /\ Returned(c)
            /\ c.hotSeen = Nil
            /\ c.result.wallet = c.wallet
            /\ c.result.score = c.warmSeen.score
            /\ c.result.lastUpdated = c.warmSeen.last_synced_at
            /\ Terms(c.result) = ThresholdRow(c.warmSeen.score)
            /\ hot[c.wallet] = [value |-> c.result,
                                expiresAt |-> now + REPUTATION_CACHE_TTL \div 60]
            /\ c.hotWrote = hot[c.wallet]
            /\ c.oracleCalls = 0

C2_Witness ==
    \E p \in Gets :
        /\ calls[p].pc = "done"
        /\ calls[p].path = "warm"
        /\ calls[p].warmAge > 0
        /\ calls[p].faults = {}

(* C3: on a hot miss a present warm record is used if and only if its age is
   strictly less than 60 minutes: one 59 minutes old is served without an
   oracle call (when no collaborator fails), one 60 or 61 minutes old is
   treated as a miss and the oracle is called although the record exists. *)
C3_StalenessBoundary ==
    \A p \in Gets :
        LET c == calls[p] IN
        c.warmSeen # Nil =>
            /\ c.warmAge <= 59 =>
                 /\ c.pc \in {"backfill", "catch", "done"}
                 /\ c.pc = "backfill" => c.oracleCalls = 0
                 /\ (c.pc = "done" /\ c.faults = {}) =>
                        c.path = "warm" /\ c.oracleCalls = 0
                 /\ c.pc = "catch" => "backfill" \in c.faults
            /\ c.warmAge >= 60 =>
                 /\ c.path # "warm"
                 /\ c.pc \notin {"backfill", "warmQuery"}
                 /\ c.pc = "fetch" => c.oracleCalls = 0
                 /\ c.pc # "fetch" => c.oracleCalls >= 1

(* one call is being served a 59-minute-old record while another, a minute
   later, has found the same record 60 minutes old and gone to the oracle *)
C3_Witness ==
    \E p \in Gets, q \in Gets :
        /\ calls[p].warmAge = 59 /\ calls[p].pc = "backfill"
        /\ calls[q].warmAge = 60 /\ calls[q].path = "oracle"
        /\ calls[q].warmSeen = calls[p].warmSeen

(* C4 as stated: whenever getReputationData obtains a score from the oracle
   on the normal path (no collaborator error), then when the call returns the
   hot cache holds the new snapshot under the wallet's key and the warm store
   holds a record for the wallet with the new score and tier and with
   lastSyncedAt equal to the snapshot's lastUpdated. *)
C4_AsStated ==
    \A p \in Gets :
        LET c == calls[p] IN
        (c.pc = "done" /\ c.path = "oracle" /\ c.faults = {}) =>
            /\ hot[c.wallet] # Nil
            /\ hot[c.wallet].value = c.result
            /\ warm[c.wallet] =
                 [score |-> c.result.score, tier |-> c.result.tier,
                  last_synced_at |-> c.result.lastUpdated]

(* C4, amended: when the wallet has a row in the users table, a call that
   obtains a score from the oracle on the normal path (no collaborator error)
   has written the new snapshot into the hot cache under the wallet's key, and
   when it returns the warm store holds a record for the wallet with the new
   score and tier and with lastSyncedAt equal to the snapshot's lastUpdated;
   the hot cache still holds the snapshot at the return when no other call on
   the wallet ran meanwhile and the entry's TTL has not run out. *)
C4_OraclePersists ==
    \A p \in Gets :
        LET c == calls[p] IN
        (c.pc = "done" /\ c.path = "oracle" /\ c.faults = {} /\ c.userFound) =>
            /\ Returned(c)
            /\ c.result.score = FetchScore(c.wallet)
            /\ c.hotWrote # Nil
            /\ c.hotWrote.value = c.result
            /\ warm[c.wallet] =
                 [score |-> c.result.score, tier |-> c.result.tier,
                  last_synced_at |-> c.result.lastUpdated]
            /\ c.warmWrote = warm[c.wallet]
            /\ (c.alone /\ now < c.hotWrote.expiresAt) => hot[c.wallet] = c.hotWrote

C4_Witness ==
    \E p \in Gets :
        LET c == calls[p] IN
        /\ c.pc = "done" /\ c.path = "oracle" /\ c.faults = {} /\ c.userFound
        /\ c.warmAge >= StaleMinutes
        /\ c.alone
        /\ hot[c.wallet] = c.hotWrote

(* C5: if a persistence step after a successful oracle fetch fails (the
   hot-cache write, the user lookup or the warm-store upsert), the call still
   returns the oracle-derived snapshot and raises no error. *)
C5_PersistFailureSwallowed ==
    \A p \in Gets :
        LET c == calls[p] IN
        c.faults \cap PersistFaults # {} =>
            /\ Returned(c)
            /\ c.oracleCalls = 1
            /\ c.result = c.rep
            /\ c.result.wallet = c.wallet
            /\ c.result.score = FetchScore(c.wallet)
            /\ Terms(c.result) = ThresholdRow(c.result.score)

C5_Witness ==
    \E p \in Gets : "upsert" \in calls[p].faults /\ Returned(calls[p])

(* C6: if the hot-cache lookup, the warm-store query or the back-fill write
   raises an error, the call goes to the oracle directly and, the oracle being
   reachable, does not throw: it returns the snapshot classified from the
   oracle's score. *)
C6_ReadFailureFallsBack ==
    \A p \in Gets :
        LET c == calls[p] IN
        c.faults \cap ReadFaults # {} =>
            \/ c.pc = "catch" /\ c.oracleCalls = 0
            \/ /\ c.pc = "done"
               /\ c.oracleCalls = 1
               /\ c.hotWrote = Nil /\ c.warmWrote = Nil
               /\ "oracleRetry" \notin c.faults =>
                    /\ Returned(c)
                    /\ c.result.wallet = c.wallet
                    /\ c.result.score = FetchScore(c.wallet)
                    /\ c.result.lastUpdated = now
                    /\ Terms(c.result) = ThresholdRow(c.result.score)

C6_Witness ==
    \E p \in Gets :
        /\ "backfill" \in calls[p].faults
        /\ Returned(calls[p])
        /\ calls[p].result.lastUpdated > calls[p].warmSeen.last_synced_at

(* C7: when both caches miss and the oracle fails at every attempt of the
   call, the oracle is invoked exactly twice (the normal attempt and one
   retry in the fallback) and the failure then leaves the call; no call
   invokes the oracle more than twice. *)
C7_OracleRetriedOnce ==
    \A p \in Gets :
        LET c == calls[p] IN
        /\ c.oracleCalls <= 2
        /\ "oracle" \in c.faults =>
             \/ c.pc = "catch" /\ c.oracleCalls = 1
             \/ /\ c.pc = "done"
                /\ c.oracleCalls = 2
                /\ "oracleRetry" \in c.faults => c.outcome = "threw" /\ c.result = Nil

C7_Witness ==
    \E p \in Gets :
        LET c == calls[p] IN
        /\ {"oracle", "oracleRetry"} \subseteq c.faults
        /\ {"hotGet", "warmQuery"} \subseteq c.tried
        /\ c.hotSeen = Nil /\ c.warmSeen = Nil
        /\ c.outcome = "threw"

(* C8: invalidateReputation attempts both the hot-cache delete and the
   warm-store delete, whichever of the two fails, and never throws. *)
C8_BothDeletesAttempted ==
    \A p \in Invalidations :
        LET c == calls[p] IN
        c.pc = "done" =>
            /\ {"hotDel", "dbDelete"} \subseteq c.tried
            /\ c.outcome = "returned"

(* C9: after an invalidateReputation that completed with both deletes
   succeeding, and with no other operation on the wallet in between, the next
   getReputationData misses the hot cache and the warm store and obtains its
   score from the oracle. *)
C9_ReadAfterInvalidate ==
    \A p \in Gets :
        LET c == calls[p] IN
        c.afterInv =>
            /\ c.hotSeen = Nil
            /\ c.warmSeen = Nil
            /\ c.pc # "backfill"
            /\ c.pc = "done" =>
                 /\ c.oracleCalls >= 1
                 /\ c.path \in {"oracle", "fallback"}
                 /\ Returned(c) => c.result.score = FetchScore(c.wallet)

C9_Witness ==
    \E p \in Gets :
        LET c == calls[p] IN
        /\ c.afterInv /\ Returned(c) /\ c.path = "oracle"
        /\ {"hotGet", "warmQuery"} \subseteq c.tried
        /\ c.faults = {}
        /\ started = 3

(* C10: for every integer score in 0..100 the classifier returns exactly the
   row of the threshold table (>= 90 gold 5 5000; 75..89 silver 8 3000;
   60..74 bronze 12 1500; < 60 poor 18 500), whatever the wallet and the
   timestamp it is given. *)
C10_ClassifierTable ==
    fnOut # Nil =>
        /\ Terms(fnOut) = ThresholdRow(fnIn.score)
        /\ fnOut.score = fnIn.score
        /\ fnOut.wallet = fnIn.wallet
        /\ fnOut.lastUpdated = fnIn.lastUpdated

C10_Witness ==
    fnOut # Nil /\ fnIn.score = 90 /\ fnOut.tier = "gold"

(* C11: every snapshot held in the hot cache, and every snapshot that
   getReputationData returns (hot hit, warm hit, oracle path or fallback),
   carries the tier, interest rate and credit limit of the threshold-table row
   of its own score. *)
C11_TermsFollowScore ==
    /\ \A w \in Wallets :
         hot[w] # Nil => Terms(hot[w].value) = ThresholdRow(hot[w].value.score)
    /\ \A p \in Gets :
         Returned(calls[p]) =>
             Terms(calls[p].result) = ThresholdRow(calls[p].result.score)

C11_Witness ==
    \E p \in Gets :
        LET c == calls[p] IN
        /\ Returned(c) /\ c.path = "hot"
        /\ hot[c.wallet] # Nil /\ hot[c.wallet].value = c.result
        /\ c.result.tier = "bronze"

C11_WitnessFallback ==
    \E p \in Gets : Returned(calls[p]) /\ calls[p].path = "fallback"

(* C12: the placeholder oracle's result |hash mod 101|, hash being the
   31*hash + charCode rolling hash wrapped to a signed 32-bit integer at every
   step, is an integer of 0..100 for every wallet string, also when the hash
   overflowed or is negative; the snapshot built from it, the warm row written
   from that snapshot and the snapshot read back from the row carry that same
   score. *)
C12_ScoreInRange ==
    fnOut.pc = "returned" =>
        LET score == fnOut.result
            rep   == MapToReputation(fnIn.wallet, score, now)
            row   == WarmRow(rep)
            back  == MapToReputation(fnIn.wallet, row.score, row.last_synced_at)
        IN  /\ score \in 0..100
            /\ score = FetchScore(fnIn.wallet)
            /\ rep.score = score
            /\ row.score = score
            /\ back.score = score

(* "ZZZZZZ": the hash has overflowed and is negative *)
C12_Witness ==
    /\ fnOut.pc = "returned"
    /\ fnIn.wallet = <<90, 90, 90, 90, 90, 90>>
    /\ fnOut.hash = -1632456256
    /\ fnOut.result = 23

(* C12, in the service: every snapshot getReputationData returns and every
   warm record carries the oracle's score of its wallet, an integer of
   0..100. *)
C12_ServiceScores ==
    /\ \A p \in Gets :
         Returned(calls[p]) =>
             /\ calls[p].result.score = FetchScore(calls[p].wallet)
             /\ calls[p].result.score \in 0..100
    /\ \A w \in Wallets :
         warm[w] # Nil => warm[w].score = FetchScore(w) /\ warm[w].score \in 0..100

(* C13: once it holds the reputation snapshot, calculateLoanQuote fails with
   MERCHANT_NOT_FOUND, a not-found error, when no merchant with the requested
   id exists, and with MERCHANT_INACTIVE, a bad-request error, when the
   merchant exists but is flagged inactive; in both cases no quote is
   returned. *)
C13_MerchantGate ==
    (fnOut.pc = "done" /\ fnIn.oracleUp) =>
        /\ fnIn.merchant = MerchantAbsent =>
              /\ fnOut.outcome = "threw"
              /\ fnOut.error = Thrown("NotFoundException", "MERCHANT_NOT_FOUND")
              /\ fnOut.quote = Nil
        /\ fnIn.merchant = MerchantInactive =>
              /\ fnOut.outcome = "threw"
              /\ fnOut.error = Thrown("BadRequestException", "MERCHANT_INACTIVE")
              /\ fnOut.quote = Nil

C13_Witness ==
    /\ fnOut.pc = "done"
    /\ fnIn.merchant = MerchantInactive
    /\ fnOut.error.code = "MERCHANT_INACTIVE"
    /\ ~ExceedsCredit(fnIn.amount, fnOut.reputation)

C13_WitnessAbsent ==
    /\ fnOut.pc = "done"
    /\ fnIn.merchant = MerchantAbsent
    /\ fnOut.error.code = "MERCHANT_NOT_FOUND"

(* C14: when the merchant lookup itself fails (the store reports an error
   that is not the absence of the row), calculateLoanQuote fails with an
   infrastructure error, which is neither the merchant-not-found error nor
   any other client error. *)
C14_StoreErrorSurfaces ==
    (fnOut.pc = "done" /\ fnIn.oracleUp /\ fnIn.merchant = MerchantStoreError) =>
        /\ fnOut.outcome = "threw"
        /\ fnOut.error.code # "MERCHANT_NOT_FOUND"
        /\ fnOut.error.exception \notin {"NotFoundException", "BadRequestException"}

(* The limit, in cents, of the threshold-table row of a score *)
CreditLimitCents(score) == ThresholdRow(score)[3] * 100

(* C15: with the snapshot obtained and the merchant active, a request whose
   amount equals the snapshot's maxCredit (or is below it) is accepted and a
   quote returned; a request whose amount is above maxCredit, be it by one
   cent, is rejected with LOAN_AMOUNT_EXCEEDS_CREDIT, a bad-request error. *)
C15_CreditGate ==
    (fnOut.pc = "done" /\ fnIn.oracleUp /\ fnIn.merchant = MerchantActive) =>
        /\ fnIn.amount <= CreditLimitCents(fnIn.score) =>
              /\ fnOut.outcome = "returned"
              /\ fnOut.quote # Nil
              /\ fnOut.quote.amount = fnIn.amount
              /\ fnOut.error = Nil
        /\ fnIn.amount > CreditLimitCents(fnIn.score) =>
              /\ fnOut.outcome = "threw"
              /\ fnOut.error =
                     Thrown("BadRequestException", "LOAN_AMOUNT_EXCEEDS_CREDIT")
              /\ fnOut.quote = Nil

(* the amount equal to the gold limit is accepted *)
C15_Witness ==
    /\ fnOut.pc = "done" /\ fnOut.outcome = "returned"
    /\ fnIn.score = 90 /\ fnIn.amount = 500000

(* one cent above the silver limit is rejected *)
C15_WitnessAbove ==
    /\ fnOut.pc = "done" /\ fnOut.outcome = "threw"
    /\ fnIn.score = 75 /\ fnIn.amount = 300001
    /\ fnOut.error.code = "LOAN_AMOUNT_EXCEEDS_CREDIT"

Accepted == fnOut.pc = "done" /\ fnOut.outcome = "returned"

(* C16: for every accepted quote (amount in whole cents), the guarantee is
   20% of the amount rounded to the nearest cent, the loan amount is 80% of
   the amount rounded to the nearest cent, and guarantee + loanAmount is the
   amount to the cent, whatever the tier. *)
C16_SplitExact ==
    Accepted =>
        LET q == fnOut.quote
            a == fnIn.amount
            offG == 100 * q.guarantee - 20 * a
            offL == 100 * q.loanAmount - 80 * a
        IN  /\ q.amount = a
            /\ -50 < offG /\ offG <= 50
            /\ -50 < offL /\ offL <= 50
            /\ q.guarantee + q.loanAmount = a

(* 1.13: 0.226 goes up to 0.23 and 0.904 down to 0.90 *)
C16_Witness ==
    /\ Accepted
    /\ fnIn.amount = 113
    /\ fnOut.quote.guarantee = 23 /\ fnOut.quote.loanAmount = 90
    /\ fnOut.reputation.tier = "poor"

C16_WitnessGold ==
    /\ Accepted
    /\ fnIn.amount = 499999
    /\ fnOut.quote.guarantee = 100000 /\ fnOut.quote.loanAmount = 399999
    /\ fnOut.reputation.tier = "gold"

(* C17: for every accepted quote, interestRate is the snapshot's rate (the
   rate of the threshold row of the score) and totalRepayment is
   loanAmount + loanAmount x (interestRate/100) x (term/12) rounded to a
   nearest cent, i.e. within half a cent of it; amount 500, term 4 at rate 8
   gives loanAmount 400 and totalRepayment 410.67. *)
C17_TotalRepayment ==
    Accepted =>
        LET q     == fnOut.quote
            rate  == ThresholdRow(fnIn.score)[2]
            exact == 1200 * q.loanAmount + q.loanAmount * rate * fnIn.term
            off   == 1200 * q.totalRepayment - exact
        IN  /\ q.interestRate = fnOut.reputation.interestRate
            /\ q.interestRate = rate
            /\ q.term = fnIn.term
            /\ -600 <= off /\ off <= 600
            /\ (fnIn.amount = 50000 /\ fnIn.term = 4 /\ rate = 8) =>
                   q.loanAmount = 40000 /\ q.totalRepayment = 41067

C17_Witness ==
    /\ Accepted
    /\ fnIn.amount = 50000 /\ fnIn.term = 4 /\ fnOut.quote.interestRate = 8
    /\ fnOut.quote.loanAmount = 40000
    /\ fnOut.quote.totalRepayment = 41067

(* 1.25 for 6 months at 5%: the exact total is 1.025, half way between two
   cents, and the lower one is returned *)
C17_WitnessHalfCent ==
    /\ Accepted
    /\ fnIn.amount = 125 /\ fnIn.term = 6 /\ fnOut.quote.interestRate = 5
    /\ fnOut.quote.totalRepayment = 102

RECURSIVE SumAmounts(_)
SumAmounts(schedule) ==
    IF schedule = <<>> THEN 0
    ELSE Head(schedule).amount + SumAmounts(Tail(schedule))

(* C18: for every totalRepayment > 0 in whole cents and every term in 1..12,
   the payment amounts of generateSchedule(totalRepayment, term) add up to
   totalRepayment to the cent. *)
C18_ScheduleSumsToTotal ==
    fnOut.pc = "returned" =>
        /\ fnIn.totalRepayment > 0
        /\ SumAmounts(fnOut.schedule) = fnIn.totalRepayment

(* 100.00 in 3 payments: 33.33, 33.33 and 33.34 *)
C18_Witness ==
    /\ fnOut.pc = "returned"
    /\ fnIn.totalRepayment = 10000 /\ fnIn.term = 3
    /\ fnOut.schedule[1].amount = 3333
    /\ fnOut.schedule[2].amount = 3333
    /\ fnOut.schedule[3].amount = 3334

(* C19: generateSchedule(totalRepayment, term) returns exactly term payments
   and the k-th payment of the returned order has paymentNumber k. *)
C19_PaymentNumbers ==
    fnOut.pc = "returned" =>
        /\ Len(fnOut.schedule) = fnIn.term
        /\ \A k \in 1..Len(fnOut.schedule) : fnOut.schedule[k].paymentNumber = k

C19_Witness ==
    /\ fnOut.pc = "returned"
    /\ fnIn.term = 12
    /\ Len(fnOut.schedule) = 12
    /\ fnOut.schedule[12].paymentNumber = 12

ValidDate(date) ==
    /\ date.month \in 0..11
    /\ date.day \in 1..DaysInMonth(date.year, date.month)

(* C20: for every generation day (the 29th, 30th and 31st included) and every
   term in 1..12, the due dates of generateSchedule are calendar dates that
   strictly increase in payment order, two consecutive ones being 28 to 31
   days apart. *)
C20_DueDatesMonthly ==
    fnOut.pc = "returned" =>
        /\ \A k \in 1..Len(fnOut.schedule) : ValidDate(fnOut.schedule[k].dueDate)
        /\ \A k \in 1..(Len(fnOut.schedule) - 1) :
              LET gap == DayNumber(fnOut.schedule[k + 1].dueDate)
                           - DayNumber(fnOut.schedule[k].dueDate)
              IN  28 <= gap /\ gap <= 31

(* generated on 31 January 2027: due 3 March, then 31 March, 28 days later *)
C20_Witness ==
    /\ fnOut.pc = "returned"
    /\ fnIn.today = [year |-> 2027, month |-> 0, day |-> 31]
    /\ fnIn.term = 12
    /\ fnOut.schedule[1].dueDate = [year |-> 2027, month |-> 2, day |-> 3]
    /\ fnOut.schedule[2].dueDate = [year |-> 2027, month |-> 2, day |-> 31]
    /\ fnOut.schedule[12].dueDate = [year |-> 2028, month |-> 0, day |-> 31]

(* The calendar month of a date, counted in months *)
MonthIndex(date) == date.year * 12 + date.month

(* C21: for every generation day and every i in 1..term, the i-th due date
   of generateSchedule falls in the calendar month that is exactly i months
   after the generation month, so that every calendar month of the term holds
   exactly one due date. *)
C21_DueDateInItsMonth ==
    fnOut.pc = "returned" =>
        \A k \in 1..Len(fnOut.schedule) :
            MonthIndex(fnOut.schedule[k].dueDate) = MonthIndex(fnIn.today) + k

(* C22: a nonce is single-use: in any interleaving of verifySignature calls
   that present the same wallet, the same stored unexpired nonce and a valid
   signature, at most one call returns tokens, and every other call fails
   with AUTH_NONCE_NOT_FOUND. *)
C22_NonceSingleUse ==
    LET issued == {p \in Procs : fnOut.calls[p].outcome = "tokens"}
    IN  (/\ \A p \in Procs : fnIn.signatureValid[p] /\ ~fnOut.calls[p].fault
         /\ now <= NonceExpiresAt) =>
            /\ Cardinality(issued) <= 1
            /\ \A p \in issued, q \in Procs \ issued :
                  fnOut.calls[q].pc = "done" =>
                      fnOut.calls[q].code = "AUTH_NONCE_NOT_FOUND"

(* C23: calculateLoanQuote passes its gates in the order reputation,
   merchant, credit limit and stops at the first that fails: when the
   reputation cannot be resolved no merchant lookup is made; when the merchant
   is absent or inactive the merchant's error is the one thrown, also when the
   amount exceeds maxCredit; after a failed gate there is no breakdown and no
   schedule. *)
C23_GateOrder ==
    /\ \E n \in 0..3 : fnOut.gates = SubSeq(<<"reputation", "merchant", "credit">>, 1, n)
    /\ fnOut.pc = "done" =>
         /\ ~fnIn.oracleUp =>
               /\ fnOut.gates = <<"reputation">>
               /\ fnOut.outcome = "threw"
               /\ fnOut.error.code = "oracle"
         /\ (fnIn.oracleUp /\ fnIn.merchant \in {MerchantAbsent, MerchantInactive}) =>
               /\ fnOut.gates = <<"reputation", "merchant">>
               /\ fnOut.outcome = "threw"
               /\ fnOut.error.code =
                      IF fnIn.merchant = MerchantAbsent THEN "MERCHANT_NOT_FOUND"
                                                        ELSE "MERCHANT_INACTIVE"
         /\ fnOut.outcome = "threw" => fnOut.quote = Nil
         /\ fnOut.outcome = "returned" =>
               /\ fnOut.gates = <<"reputation", "merchant", "credit">>
               /\ fnOut.error = Nil

(* an inactive merchant and an amount above the limit: the merchant's error *)
C23_Witness ==
    /\ fnOut.pc = "done"
    /\ fnIn.oracleUp /\ fnIn.merchant = MerchantInactive
    /\ fnIn.amount > CreditLimitCents(fnIn.score)
    /\ fnOut.error.code = "MERCHANT_INACTIVE"
    /\ fnOut.gates = <<"reputation", "merchant">>

(* the oracle down, the merchant absent: no lookup *)
C23_WitnessNoLookup ==
    /\ fnOut.pc = "done"
    /\ ~fnIn.oracleUp /\ fnIn.merchant = MerchantAbsent
    /\ fnOut.gates = <<"reputation">>

(* C24: in generateSchedule(totalRepayment, term) every payment before the
   last is totalRepayment / term cut down to the cent, the last payment is
   totalRepayment minus the sum of the earlier payments, and for term = 1 the
   single payment is totalRepayment. *)
C24_FloorThenAbsorb ==
    fnOut.pc = "returned" =>
        LET sch == fnOut.schedule
            n   == Len(sch)
        IN  /\ \A k \in 1..(n - 1) :
                  sch[k].amount = fnIn.totalRepayment \div fnIn.term
            /\ sch[n].amount =
                  fnIn.totalRepayment - SumAmounts(SubSeq(sch, 1, n - 1))
            /\ fnIn.term = 1 => sch[1].amount = fnIn.totalRepayment

(* a call that found neither a hot entry nor a fresh warm record *)
MissedBoth(c) ==
    /\ {"hotGet", "warmQuery"} \subseteq c.tried
    /\ c.hotSeen = Nil
    /\ c.warmSeen = Nil \/ c.warmAge >= StaleMinutes

(* C25: there is no single-flight de-duplication: a getReputationData call
   that missed the hot cache and the warm store goes to the oracle itself
   whether or not another call for the wallet is in flight, so that two oracle
   fetches for one wallet can be in flight together (the witness); collaborator
   errors apart, each such call has invoked the oracle once when it returns
   and has written its own snapshot to the hot cache and, the wallet having a
   users row, to the warm store. *)
C25_NoSingleFlight ==
    \A p \in Gets :
        LET c == calls[p] IN
        (MissedBoth(c) /\ c.faults = {}) =>
            /\ c.pc \in {"fetch", "persistHot", "persistUser", "persistUpsert", "done"}
            /\ c.pc # "fetch" => c.oracleCalls = 1 /\ c.rep.score = FetchScore(c.wallet)
            /\ c.pc \in {"persistUser", "persistUpsert", "done"} =>
                   c.hotWrote # Nil /\ c.hotWrote.value = c.rep
            /\ c.pc = "done" =>
                   /\ Returned(c) /\ c.result = c.rep
                   /\ c.userFound => c.warmWrote = WarmRow(c.rep)

(* two oracle fetches for the wallet in flight at once *)
C25_Witness ==
    /\ \A p \in Procs :
          /\ calls[p].op = "get" /\ calls[p].pc = "fetch"
          /\ MissedBoth(calls[p]) /\ calls[p].faults = {}
    /\ calls[1].wallet = calls[2].wallet

(* both have written the hot cache and the warm store *)
C25_WitnessBothWrote ==
    \E p \in Gets, q \in Gets :
        /\ p # q /\ calls[p].wallet = calls[q].wallet
        /\ calls[p].pc = "done" /\ calls[p].warmWrote # Nil /\ calls[p].hotWrote # Nil
        /\ calls[q].pc = "persistUpsert" /\ calls[q].hotWrote # Nil
        /\ MissedBoth(calls[p]) /\ MissedBoth(calls[q])
        /\ calls[p].oracleCalls = 1 /\ calls[q].oracleCalls = 1

(* C26: invalidation is not defeated by an in-flight read.  A
   getReputationData(wallet) call that starts after an invalidateReputation(wallet)
   has cleared both caches never returns a snapshot whose score was fetched
   from the oracle before that invalidation completed (the snapshot's
   lastUpdated is the instant of its fetch), even when another read of the
   wallet was in progress while the invalidation ran.  Stated for runs
   without any collaborator failure. *)
C26_InvalidationWins ==
    \A p \in Gets : LET c == calls[p] IN
        (faulted = 0 /\ Returned(c) /\ fnOut.since[p] >= 0) =>
            c.result.lastUpdated >= fnOut.since[p]

(* C27: cached reputation never regresses.  When invalidateReputation is
   never called, no step replaces the hot-cache entry of a wallet by one with
   an earlier lastUpdated, nor its warm record by one with an earlier
   last_synced_at: a snapshot from an older oracle fetch never overwrites
   one from a newer fetch.  Stated for runs without any collaborator
   failure. *)
C27_NeverRegresses ==
    [][\A w \in Wallets :
         faulted' = 0 =>
            /\ (hot[w] # Nil /\ hot'[w] # Nil) =>
                  hot'[w].value.lastUpdated >= hot[w].value.lastUpdated
            /\ (warm[w] # Nil /\ warm'[w] # Nil) =>
                  warm'[w].last_synced_at >= warm[w].last_synced_at]_vars

(* the age, at the return, of the snapshot a call returned *)
Age(c) == now - c.result.lastUpdated

(* C28 (as stated): bounded staleness.  In every execution the score of a
   snapshot returned by getReputationData was obtained from the oracle less
   than 60 minutes plus one hot-cache TTL before the return. *)
C28_AsStated ==
    \A p \in Gets : LET c == calls[p] IN
        Returned(c) => Age(c) < StaleMinutes + TtlMinutes

(* C28 (amended): the bound holds as long as the clock has not moved while a
   call was in progress, i.e. when every call takes no time on the clock's
   scale. *)
C28_BoundedStaleness ==
    ~fnOut.slow => C28_AsStated

(* C28 witness: without any slow call, a read is served from the hot cache a
   snapshot that is older than the 60 minutes of the warm store *)
C28_Witness ==
    /\ ~fnOut.slow
    /\ \E p \in Gets : /\ Returned(calls[p])
                        /\ calls[p].path = "hot"
                        /\ Age(calls[p]) >= StaleMinutes

(* C29: per-wallet isolation.  A step of a getReputationData(w) or
   invalidateReputation(w) call, successful or failed, leaves the hot-cache
   entry and the warm record of every other wallet v unchanged. *)
C29_Isolation ==
    [][\A p \in Procs :
         (Running(p) /\ calls'[p] # calls[p]) =>
            \A v \in Stored \ {calls[p].wallet} :
                hot'[v] = hot[v] /\ warm'[v] = warm[v]]_vars

(* C29 witness: an invalidation of one wallet has cleared its two caches
   while the other wallet's hot entry and warm record are in place *)
C29_Witness ==
    \E p \in Invalidations : LET c == calls[p] IN
        /\ c.pc = "done" /\ c.faults = {}
        /\ c.wallet = WalletA
        /\ hot[WalletA] = Nil /\ warm[WalletA] = Nil
        /\ hot[WalletB] # Nil /\ hot[WalletB].value.wallet = WalletB
        /\ warm[WalletB] # Nil

(* C29 witness: a read of one wallet has failed and fallen back to the oracle
   while the other wallet's hot entry and warm record are in place *)
C29_WitnessFailed ==
    \E p \in Gets : LET c == calls[p] IN
        /\ c.pc = "done" /\ c.faults # {}
        /\ c.wallet = WalletB
        /\ hot[WalletA] # Nil /\ hot[WalletA].value.wallet = WalletA
        /\ warm[WalletA] # Nil

(* C30: a wallet without a row in the users table never gets a warm record.
   No read of it writes the warm store; a read that finds no live hot entry
   calls the oracle; and, when no collaborator fails, that read writes the
   hot cache only and returns the snapshot it fetched. *)
C30_UserlessWallet ==
    \A w \in Wallets : w \notin users =>
        /\ warm[w] = Nil
        /\ \A p \in Gets : calls[p].wallet = w =>
              LET c == calls[p] IN
              /\ c.warmWrote = Nil
              /\ (c.pc = "done" /\ c.hotSeen = Nil) => c.oracleCalls >= 1
              /\ (c.pc = "done" /\ c.hotSeen = Nil /\ c.faults = {}) =>
                    /\ Returned(c) /\ c.path = "oracle" /\ c.oracleCalls = 1
                    /\ c.result = MapToReputation(w, FetchScore(w), c.result.lastUpdated)
                    /\ c.hotWrote # Nil /\ c.hotWrote.value = c.result

(* C30 witness: after an earlier call and 59 minutes or more, a read of a
   wallet without a user finds no hot entry, fetches from the oracle at that
   moment and returns, leaving no warm record *)
C30_Witness ==
    \E p \in Gets : LET c == calls[p] IN
        /\ c.wallet \notin users /\ warm[c.wallet] = Nil
        /\ started >= 2 /\ now >= 59
        /\ Returned(c) /\ c.faults = {} /\ c.hotSeen = Nil
        /\ c.oracleCalls = 1 /\ c.result.lastUpdated = now

====
